---- MODULE Spec2Model ----
(***************************************************************************)
(* PSD rendering and caching pipeline of PSD_Temple:                       *)
(*   utils/cache_manager.py  PSDFileCache   (the on-disk bitmap cache)     *)
(*   rendering.py            PSDFullRenderer (fallback chain, background   *)
(*                           generation, callback delivery)                *)
(*   models/psd.py, controllers/, views/  (documents, opening, drawing)    *)
(* The specifications share the variables:                                 *)
(*   SpecCache  the cache operations on a small file system                *)
(*   SpecGen    _generate_composite applied to every bounded document      *)
(*   Spec       one PSDFullRenderer under interleaved requests and workers *)
(*   SpecDoc    Spec with layer visibility changes                         *)
(*   SpecTree   set_layer_visibility on layer trees with groups            *)
(*   SpecOpen   opening documents through the controller and the view      *)
(*   SpecLight  PSDLightRenderer and its preview file                      *)
(*   SpecCb     SpecDoc with completion callbacks that raise               *)
(*   SpecDraw   the drawing layers of DrawingController                    *)
(***************************************************************************)
EXTENDS Integers, Sequences, FiniteSets, TLC

\* Python's None where a bitmap is expected
None == [kind |-> "None"]

\* filepath=None of PSDFullRenderer.__init__
NoPath == ""

\* ------------------------------------------------------------------------
\* Bounds of the model
\* ------------------------------------------------------------------------
MaxTime == 2
MaxOps == 3
MaxFileSize == 2
MaxCalls == 3

\* max_cache_size is 1 GiB; sizes are counted in units of 512 MiB.
max_cache_size == 2

Paths == {"a"}
Suffixes == {"_full", "_preview"}
Times == 1..MaxTime
FileSizes == 1..MaxFileSize
SourceSizes == {1}
\* pixel contents of the bitmaps handed to the cache in SpecCache
Pixels == {"px1", "px2"}

\* the thread that calls get_composite_image: the UI event loop
Threads == {"ui"}

\* every call starts at most one thread
WorkerIds == 1..MaxCalls

\* a thread that has not been started
NotStarted == [pc |-> "unstarted", idx |-> 0, result |-> [kind |-> "None"], save |-> "none"]

VARIABLES
    source,        \* the source files: path -> [size, mtime]
    files,         \* cache_dir: file name -> [mtime, atime, size, px, valid]
    metadata,      \* PSDFileCache.metadata (in memory)
    metadata_file, \* metadata.json as last written
    clock,         \* the file system's current time
    nops,          \* number of cache operations and file-system events so far
    cres,          \* the last cache call and what it returned
    written,       \* history: every cache file a save has written
    psd,           \* PSDFullRenderer.psd: the parsed document
    filepath,      \* PSDFullRenderer.filepath (None when not given)
    gout,          \* SpecGen: what the last _generate_composite call did
    composite,     \* PSDFullRenderer._composite
    loading,       \* PSDFullRenderer._loading
    callbacks,     \* PSDFullRenderer._callbacks
    req,           \* per requesting thread: where it is in get_composite_image
    workers,       \* per started thread: where it is in its target
    calls,         \* history: the get_composite_image calls, in the order issued
    attached,      \* history: the callbacks in the order they were appended
    invoked,       \* history: per worker, the callback invocations it made, in order
    vret,          \* the last PSDController.set_layer_visibility call and its result
    ctl_doc,       \* PSDController.psd_doc
    view_doc,      \* PSDView.psd_doc
    cleaned,       \* ids of the documents whose cleanup() has run
    ndocs,         \* number of documents constructed so far (the next id is ndocs + 1)
    oret,          \* the last open call (load_psd, from_file, create_renderer) and its result
    png_image,     \* PSDLightRenderer._png_image
    preview_file,  \* the file at PSDLightRenderer.preview_path
    ncomposite,    \* number of psd.composite() calls the Light renderer has made
    lret,          \* the last PSDLightRenderer call and its result
    drawing_layers,       \* DrawingView.drawing_layers, the list DrawingController.layers refers to
    active_layer_id,      \* DrawingController.active_layer_id
    view_active_layer_id, \* DrawingView.active_layer_id
    dret                  \* the last DrawingController layer call and the list before it

cacheVars == <<source, files, metadata, metadata_file, clock, nops, cres, written>>
genVars == <<psd, filepath, gout>>
rendVars == <<composite, loading, callbacks, req, workers, calls, attached, invoked>>
treeVars == <<vret>>
openVars == <<ctl_doc, view_doc, cleaned, ndocs, oret>>
lightVars == <<png_image, preview_file, ncomposite, lret>>
drawVars == <<drawing_layers, active_layer_id, view_active_layer_id, dret>>
appVars == <<treeVars, openVars, lightVars, drawVars>>
vars == <<cacheVars, genVars, rendVars, appVars>>

\* the objects outside the rendering pipeline, before anything was done to them
AppIdle ==
    /\ vret = [op |-> "none"]
    /\ ctl_doc = None
    /\ view_doc = None
    /\ cleaned = {}
    /\ ndocs = 0
    /\ oret = [op |-> "none"]
    /\ png_image = None
    /\ preview_file = None
    /\ ncomposite = 0
    /\ lret = [op |-> "none"]
    /\ drawing_layers = <<1>>
    /\ active_layer_id = 1
    /\ view_active_layer_id = 1
    /\ dret = [op |-> "none"]

\* ------------------------------------------------------------------------
\* cache_manager.py
\* ------------------------------------------------------------------------
Digit(d) == CASE d = 0 -> "0" [] d = 1 -> "1" [] d = 2 -> "2" [] d = 3 -> "3"
              [] d = 4 -> "4" [] d = 5 -> "5" [] d = 6 -> "6" [] d = 7 -> "7"
              [] d = 8 -> "8" [] OTHER -> "9"

RECURSIVE StrInt(_)
\* str(n) of a non-negative int, as a sequence of characters
StrInt(n) == IF n < 10 THEN <<Digit(n)>> ELSE StrInt(n \div 10) \o <<Digit(n % 10)>>

\* str(x) of a float holding a whole number of seconds: "3.0"
StrFloat(n) == StrInt(n) \o <<".", "0">>

\* _get_file_hash: md5 over path, str(st_size), str(st_mtime), fed one after
\* the other without separators; the digest is taken to be injective on the
\* bytes fed, so the hash is modelled by those bytes.
_get_file_hash(path) ==
    <<path>> \o StrInt(source[path].size) \o StrFloat(source[path].mtime)

\* get_cache_path: cache_dir / f"{file_hash}{suffix}.png"
get_cache_path(path, suffix) == _get_file_hash(path) \o <<suffix, ".png">>

Exists(fs, name) == name \in DOMAIN fs

Remove(fs, name) == [n \in (DOMAIN fs) \ {name} |-> fs[n]]

WriteFile(fs, name, rec) == [n \in (DOMAIN fs) \cup {name} |-> IF n = name THEN rec ELSE fs[n]]

RECURSIVE SumSizes(_, _)
SumSizes(fs, names) ==
    IF names = {} THEN 0
    ELSE LET n == CHOOSE x \in names : TRUE
         IN fs[n].size + SumSizes(fs, names \ {n})

\* total_size = sum(f.stat().st_size for f in cache_dir.glob("**/*") if f.is_file())
\* metadata.json is a few hundred bytes per entry: 0 in units of 512 MiB.
TotalSize(fs) == SumSizes(fs, DOMAIN fs)

\* the orders files.sort(key=atime) can produce: ascending in atime, ties in
\* the order the directory listing happened to give
IsSortedByAtime(fs, order) ==
    \A i, j \in 1..Len(order) : i < j => fs[order[i]].atime <= fs[order[j]].atime

Orders(fs) ==
    LET n == Cardinality(DOMAIN fs)
    IN {o \in [1..n -> DOMAIN fs] :
            /\ \A i, j \in 1..n : i # j => o[i] # o[j]
            /\ IsSortedByAtime(fs, o)}

\* a sweep that keeps removing once the total is within the budget
EvictLoopNoBreak(fs, order, i, total, failing) ==
    [n \in {m \in DOMAIN fs : m \in failing} |-> fs[n]]

RECURSIVE EvictLoop(_, _, _, _, _)
\* for f, _ in files: stop once total_size <= max_cache_size; a file whose
\* removal fails (name in failing) is skipped
EvictLoop(fs, order, i, total, failing) ==
    IF i > Len(order) \/ total <= max_cache_size THEN fs
    ELSE IF order[i] \in failing
         THEN EvictLoop(fs, order, i + 1, total, failing)
         ELSE EvictLoop(Remove(fs, order[i]), order, i + 1, total - fs[order[i]].size, failing)

\* a save that does not sweep the cache directory
_cleanup_cacheNotRun(fs, order, failing) == fs

\* _cleanup_cache
_cleanup_cache(fs, order, failing) ==
    IF TotalSize(fs) <= max_cache_size THEN fs
    ELSE EvictLoop(fs, order, 1, TotalSize(fs), failing)

\* the metadata record save_image_to_cache stores under f"{hash}{suffix}"
MetaRecord(path, suffix, size) ==
    [source_path |-> path,
     cache_path  |-> get_cache_path(path, suffix),
     size        |-> size,
     created_at  |-> clock]

MetaKey(path, suffix) == _get_file_hash(path) \o <<suffix>>

\* a save that stores the metadata record although image.save raised
save_image_to_cacheIndexFirst(px, path, suffix, size, outcome, failing) ==
    /\ metadata' = WriteFile(metadata, MetaKey(path, suffix), MetaRecord(path, suffix, size))
    /\ metadata_file' = metadata'
    /\ IF outcome = "ok"
       THEN /\ files' = WriteFile(files, get_cache_path(path, suffix),
                                  [mtime |-> clock, atime |-> clock, size |-> size,
                                   px |-> px, valid |-> TRUE])
            /\ written' = written \cup {[name |-> get_cache_path(path, suffix), path |-> path,
                                        suffix |-> suffix, smtime |-> source[path].mtime]}
       ELSE UNCHANGED <<files, written>>

\* save_image_to_cache(image, path, suffix); outcome is what image.save
\* did: "ok"; "fail" (it raised and left nothing new on disk); "truncated"
\* (it raised after opening an existing cache file for writing, which is left
\* empty)
save_image_to_cache(px, path, suffix, size, outcome, failing) ==
    LET name == get_cache_path(path, suffix)
        rec == [mtime |-> clock, atime |-> clock, size |-> size, px |-> px, valid |-> TRUE]
        saved == WriteFile(files, name, rec)
    IN CASE outcome = "ok" ->
            /\ \E order \in Orders(saved) : files' = _cleanup_cache(saved, order, failing)
            /\ metadata' = WriteFile(metadata, MetaKey(path, suffix),
                                     MetaRecord(path, suffix, size))
            /\ metadata_file' = metadata'
            /\ written' = written \cup {[name |-> name, path |-> path, suffix |-> suffix,
                                        smtime |-> source[path].mtime]}
         [] outcome = "truncated" /\ Exists(files, name) ->
            /\ files' = [files EXCEPT ![name] =
                            [mtime |-> clock, atime |-> @.atime, size |-> 0,
                             px |-> @.px, valid |-> FALSE]]
            /\ UNCHANGED <<metadata, metadata_file, written>>
         [] OTHER -> UNCHANGED <<files, metadata, metadata_file, written>>

\* a lookup that opens whatever file is at the cache path, however old
CachedImageResultAnyAge(fs, path, suffix) ==
    LET cache_path == get_cache_path(path, suffix)
    IN IF ~Exists(fs, cache_path) THEN None
       ELSE IF ~fs[cache_path].valid THEN None
       ELSE [kind |-> "bitmap", id |-> 0, px |-> fs[cache_path].px]

\* get_cached_image(path, suffix): the value returned; Image.open gives a new
\* bitmap object (id 0) holding the pixels of the file
CachedImageResult(fs, path, suffix) ==
    LET cache_path == get_cache_path(path, suffix)
    IN IF ~Exists(fs, cache_path) THEN None
       ELSE IF fs[cache_path].mtime < source[path].mtime THEN None
       ELSE IF ~fs[cache_path].valid THEN None
       ELSE [kind |-> "bitmap", id |-> 0, px |-> fs[cache_path].px]

\* get_cached_image(path, suffix): the cache directory afterwards;
\* removeOk is whether os.remove of a stale file succeeded
CachedImageFiles(fs, path, suffix, removeOk) ==
    LET cache_path == get_cache_path(path, suffix)
    IN IF ~Exists(fs, cache_path) THEN fs
       ELSE IF fs[cache_path].mtime < source[path].mtime
            THEN (IF removeOk THEN Remove(fs, cache_path) ELSE fs)
            ELSE [fs EXCEPT ![cache_path].atime = clock]

\* ------------------------------------------------------------------------
\* rendering.py: PSDFullRenderer._generate_composite
\* ------------------------------------------------------------------------
MaxLayers == 2

\* the (name, callable) pairs of try_methods, by the name of the psd method
\* the lambda calls
try_methods == <<"composite", "topil", "get_composite_image">>

\* method.__name__ of each entry of try_methods: the entries are lambdas
LambdaName(m) == "<lambda>"

\* method.__name__.split('.')[-1]: the name holds no dot
LastDotPart(name) == name

\* hasattr(self.psd, name): the document's attributes are its built-in
\* accessors (an absent one is no attribute), layers, header, width, height
HasAttr(doc, name) ==
    \/ name \in {m \in DOMAIN doc.builtin : doc.builtin[m] # "absent"}
    \/ name \in {"layers", "width", "height"}
    \/ (name = "header" /\ doc.header.present)

BuiltinPx(m) == [kind |-> "builtin", from |-> m, w |-> 0, h |-> 0, pasted |-> <<>>, text |-> <<>>]

RECURSIVE TryLoop(_, _, _)
\* for method_name, method in try_methods: ... ; acc is (composite,
\* methods_tried, calls), calls being the accessors actually invoked
TryLoop(doc, i, acc) ==
    IF i > Len(try_methods) THEN acc
    ELSE LET m == try_methods[i]
         IN IF HasAttr(doc, LastDotPart(LambdaName(m)))
            THEN CASE doc.builtin[m] = "img" ->
                        [composite |-> BuiltinPx(m),
                         methods_tried |-> Append(acc.methods_tried, <<m, "ok">>),
                         calls |-> Append(acc.calls, m)]
                   [] doc.builtin[m] = "raise" ->
                        TryLoop(doc, i + 1,
                                [acc EXCEPT !.methods_tried = Append(@, <<m, "failed">>),
                                            !.calls = Append(@, m)])
                   [] OTHER ->
                        TryLoop(doc, i + 1, [acc EXCEPT !.calls = Append(@, m)])
            ELSE TryLoop(doc, i + 1, acc)

\* "a or b" on numbers
Or(a, b) == IF a # 0 THEN a ELSE b

\* the canvas size of manual composition, <<0, 0>> when it cannot be
\* determined (header.width/height of None count as 0)
CanvasSize(doc) ==
    LET width == Or(doc.header.width, doc.width)
        height == Or(doc.header.height, doc.height)
    IN IF width = 0 \/ height = 0
       THEN <<doc.layers[1].width, doc.layers[1].height>>
       ELSE <<width, height>>

\* one pass of the loop body over a layer: the canvas afterwards
CompositeLayer(pasted, layer) ==
    IF layer.visible
    THEN IF layer.topil = "absent" THEN pasted
         ELSE IF layer.topil = "raise" THEN pasted
         ELSE IF layer.topil = "none" THEN pasted
         ELSE IF layer.alpha_composite = "raise" THEN pasted
         ELSE Append(pasted, <<layer.name, layer.left, layer.top>>)
    ELSE pasted

RECURSIVE CompositeLayersDeclaredOrder(_, _, _)
\* a loop over self.psd.layers without reversed()
CompositeLayersDeclaredOrder(layers, i, pasted) ==
    IF i = 0 THEN pasted
    ELSE CompositeLayersDeclaredOrder(layers, i - 1,
                                      CompositeLayer(pasted, layers[Len(layers) + 1 - i]))

RECURSIVE CompositeLayers(_, _, _)
\* for i, layer in enumerate(reversed(self.psd.layers))
CompositeLayers(layers, i, pasted) ==
    IF i = 0 THEN pasted
    ELSE CompositeLayers(layers, i - 1, CompositeLayer(pasted, layers[i]))

\* a manual composition block that lacks the check of the dimensions and
\* allocates the canvas whatever they are
ManualCompositionUnchecked(doc, acc) ==
    IF ~doc.header.present
    THEN [acc EXCEPT !.methods_tried = Append(@, <<"manual composition", "failed">>)]
    ELSE LET size == CanvasSize(doc)
         IN [acc EXCEPT
                !.composite = [kind |-> "manual", from |-> "layers",
                               w |-> size[1], h |-> size[2],
                               pasted |-> CompositeLayers(doc.layers, Len(doc.layers), <<>>),
                               text |-> <<>>],
                !.methods_tried = Append(@, <<"manual layer composition", "ok">>)]

\* the manual layer composition block: acc afterwards
ManualComposition(doc, acc) ==
    IF ~doc.header.present
    THEN [acc EXCEPT !.methods_tried = Append(@, <<"manual composition", "failed">>)]
    ELSE LET size == CanvasSize(doc)
         IN IF size[1] = 0 \/ size[2] = 0
            THEN [acc EXCEPT !.methods_tried = Append(@, <<"manual composition", "failed">>)]
            ELSE [acc EXCEPT
                    !.composite = [kind |-> "manual", from |-> "layers",
                                   w |-> size[1], h |-> size[2],
                                   pasted |-> CompositeLayers(doc.layers, Len(doc.layers), <<>>),
                                   text |-> <<>>],
                    !.methods_tried = Append(@, <<"manual layer composition", "ok">>)]

\* the diagnostic placeholder: 800x200, pale red, one text line per method tried
Placeholder(methods_tried) ==
    [kind |-> "placeholder", from |-> "error", w |-> 800, h |-> 200,
     pasted |-> <<>>, text |-> methods_tried]

\* a generation that returns its composite without saving it to the cache
_generate_compositeUnsaved(doc, fpath, placeholder_ok) ==
    LET acc0 == [composite |-> None, methods_tried |-> <<>>, calls |-> <<>>]
        acc1 == TryLoop(doc, 1, acc0)
        acc2 == IF acc1.composite = None /\ doc.layers # <<>>
                THEN ManualComposition(doc, acc1)
                ELSE acc1
    IN IF acc2.composite = None
       THEN IF placeholder_ok
            THEN [raised |-> FALSE, composite |-> Placeholder(acc2.methods_tried),
                  methods_tried |-> acc2.methods_tried, calls |-> acc2.calls,
                  manual |-> acc1.composite = None /\ doc.layers # <<>>, save |-> FALSE]
            ELSE [raised |-> TRUE, composite |-> None,
                  methods_tried |-> acc2.methods_tried, calls |-> acc2.calls,
                  manual |-> acc1.composite = None /\ doc.layers # <<>>, save |-> FALSE]
       ELSE [raised |-> FALSE, composite |-> acc2.composite,
             methods_tried |-> acc2.methods_tried, calls |-> acc2.calls,
             manual |-> acc1.composite = None /\ doc.layers # <<>>, save |-> FALSE]

\* a generation that hands the placeholder to the cache like any composite
_generate_compositeSavesPlaceholder(doc, fpath, placeholder_ok) ==
    LET acc0 == [composite |-> None, methods_tried |-> <<>>, calls |-> <<>>]
        acc1 == TryLoop(doc, 1, acc0)
        acc2 == IF acc1.composite = None /\ doc.layers # <<>>
                THEN ManualComposition(doc, acc1)
                ELSE acc1
    IN IF acc2.composite = None
       THEN IF placeholder_ok
            THEN [raised |-> FALSE, composite |-> Placeholder(acc2.methods_tried),
                  methods_tried |-> acc2.methods_tried, calls |-> acc2.calls,
                  manual |-> acc1.composite = None /\ doc.layers # <<>>,
                  save |-> fpath # NoPath]
            ELSE [raised |-> TRUE, composite |-> None,
                  methods_tried |-> acc2.methods_tried, calls |-> acc2.calls,
                  manual |-> acc1.composite = None /\ doc.layers # <<>>, save |-> FALSE]
       ELSE [raised |-> FALSE, composite |-> acc2.composite,
             methods_tried |-> acc2.methods_tried, calls |-> acc2.calls,
             manual |-> acc1.composite = None /\ doc.layers # <<>>, save |-> fpath # NoPath]

\* _generate_composite: what it returns or raises, the accessors it called and
\* whether it handed the result to save_image_to_cache; placeholder_ok is
\* whether the placeholder could be drawn
_generate_composite(doc, fpath, placeholder_ok) ==
    LET acc0 == [composite |-> None, methods_tried |-> <<>>, calls |-> <<>>]
        acc1 == TryLoop(doc, 1, acc0)
        acc2 == IF acc1.composite = None /\ doc.layers # <<>>
                THEN ManualComposition(doc, acc1)
                ELSE acc1
    IN IF acc2.composite = None
       THEN IF placeholder_ok
            THEN [raised |-> FALSE, composite |-> Placeholder(acc2.methods_tried),
                  methods_tried |-> acc2.methods_tried, calls |-> acc2.calls,
                  manual |-> acc1.composite = None /\ doc.layers # <<>>, save |-> FALSE]
            ELSE [raised |-> TRUE, composite |-> None,
                  methods_tried |-> acc2.methods_tried, calls |-> acc2.calls,
                  manual |-> acc1.composite = None /\ doc.layers # <<>>, save |-> FALSE]
       ELSE [raised |-> FALSE, composite |-> acc2.composite,
             methods_tried |-> acc2.methods_tried, calls |-> acc2.calls,
             manual |-> acc1.composite = None /\ doc.layers # <<>>, save |-> fpath # NoPath]

\* ------------------------------------------------------------------------
\* The documents of the model
\* ------------------------------------------------------------------------
BuiltinOutcomes == {"absent", "raise", "none", "img"}

Builtins ==
    [composite : BuiltinOutcomes, topil : {"absent", "img"},
     get_composite_image : {"absent", "img"}]

Headers ==
    {[present |-> FALSE, width |-> 0, height |-> 0]}
    \cup [present : {TRUE}, width : {0, 2}, height : {0, 3}]

\* the layer at position i of the declared order; only the first layer's
\* size is ever read
LayersAt(i) ==
    {l \in [name : {i}, visible : BOOLEAN, topil : {"absent", "raise", "none", "img"},
            alpha_composite : {"ok", "raise"},
            width : IF i = 1 THEN {0, 6} ELSE {6}, height : IF i = 1 THEN {0, 7} ELSE {7},
            left : {i}, top : {10 + i}] :
        /\ (l.alpha_composite = "raise" => l.topil = "img")
        /\ (~l.visible => l.topil = "img" /\ l.alpha_composite = "ok")
        /\ (l.width = 0 <=> l.height = 0)}

LayerLists ==
    UNION {{ls \in [1..n -> UNION {LayersAt(i) : i \in 1..n}] :
                \A i \in 1..n : ls[i] \in LayersAt(i)} : n \in 0..MaxLayers}

Docs ==
    {d \in [builtin : Builtins, header : Headers, width : {0, 4}, height : {0, 5},
            layers : LayerLists] :
        /\ (d.width = 0 <=> d.height = 0)
        /\ (d.header.width = 0 <=> d.header.height = 0)}

\* ------------------------------------------------------------------------
\* SpecGen: _generate_composite applied once to each document
\* ------------------------------------------------------------------------
GenInit ==
    /\ psd \in Docs
    /\ filepath \in Paths \cup {NoPath}
    /\ gout = [state |-> "idle"]
    /\ source = [p \in Paths |-> [size |-> 1, mtime |-> 1]]
    /\ files = <<>>
    /\ metadata = <<>>
    /\ metadata_file = <<>>
    /\ clock = 1
    /\ nops = 0
    /\ cres = [op |-> "none"]
    /\ written = {}
    /\ composite = None
    /\ loading = FALSE
    /\ callbacks = <<>>
    /\ req = [t \in Threads |-> [pc |-> "idle", call |-> 0]]
    /\ workers = [w \in WorkerIds |-> NotStarted]
    /\ calls = <<>>
    /\ attached = <<>>
    /\ invoked = [w \in WorkerIds |-> <<>>]
    /\ AppIdle

\* the size of the PNG file image.save writes for a composite: the same
\* pixels give the same file
PngSize(px) == IF px.pasted = <<>> THEN 1 ELSE MaxFileSize

Generate ==
    /\ gout.state = "idle"
    /\ \E placeholder_ok \in BOOLEAN, outcome \in {"ok", "fail"} :
          LET r == _generate_composite(psd, filepath, placeholder_ok)
              size == IF r.save THEN PngSize(r.composite) ELSE 1
          IN /\ gout' = [state |-> "done", placeholder_ok |-> placeholder_ok,
                         raised |-> r.raised, composite |-> r.composite,
                         methods_tried |-> r.methods_tried, calls |-> r.calls,
                         manual |-> r.manual, save |-> r.save]
             /\ IF r.save
                THEN /\ save_image_to_cache(r.composite, filepath, "_full", size, outcome, {})
                     /\ cres' = [op |-> "save", path |-> filepath, suffix |-> "_full",
                                 px |-> r.composite, outcome |-> outcome]
                ELSE UNCHANGED <<files, metadata, metadata_file, written, cres>>
    /\ UNCHANGED <<source, clock, nops, psd, filepath>>
    /\ UNCHANGED rendVars
    /\ UNCHANGED appVars

GenNext == Generate

SpecGen == GenInit /\ [][GenNext]_vars

\* ------------------------------------------------------------------------
\* SpecCache: the cache under saves, lookups and changes of the source files
\* ------------------------------------------------------------------------
CacheInit ==
    /\ source \in [Paths -> [size : {1}, mtime : {1, 2}]]
    /\ files = <<>>
    /\ metadata = <<>>
    /\ metadata_file = <<>>
    /\ clock = 1
    /\ nops = 0
    /\ cres = [op |-> "none"]
    /\ written = {}
    /\ psd = [layers |-> <<>>]
    /\ filepath = NoPath
    /\ gout = [state |-> "idle"]
    /\ composite = None
    /\ loading = FALSE
    /\ callbacks = <<>>
    /\ req = [t \in Threads |-> [pc |-> "idle", call |-> 0]]
    /\ workers = [w \in WorkerIds |-> NotStarted]
    /\ calls = <<>>
    /\ attached = <<>>
    /\ invoked = [w \in WorkerIds |-> <<>>]
    /\ AppIdle

\* the removals that can fail during the sweep of a save: none, or one file's
FailingSets(path, suffix, size, outcome) ==
    LET saved == WriteFile(files, get_cache_path(path, suffix),
                           [mtime |-> clock, atime |-> clock, size |-> size,
                            px |-> "px1", valid |-> TRUE])
    IN IF outcome = "ok" /\ TotalSize(saved) > max_cache_size
       THEN {{}} \cup {{n} : n \in DOMAIN saved}
       ELSE {{}}

Save ==
    /\ nops < MaxOps
    /\ \E path \in Paths, suffix \in Suffixes, px \in Pixels, size \in FileSizes,
          outcome \in {"ok", "fail", "truncated"} :
          /\ outcome = "truncated" => Exists(files, get_cache_path(path, suffix))
          \* the same pixels give the same file; a bitmap that is never
          \* written is not told apart
          /\ size = (IF px = "px1" THEN 1 ELSE MaxFileSize)
          /\ outcome # "ok" => px = "px1"
          /\ \E failing \in FailingSets(path, suffix, size, outcome) :
                /\ save_image_to_cache(px, path, suffix, size, outcome, failing)
                /\ cres' = [op |-> "save", path |-> path, suffix |-> suffix,
                            px |-> px, size |-> size, outcome |-> outcome,
                            failing |-> failing]
    /\ nops' = nops + 1
    /\ UNCHANGED <<source, clock>>
    /\ UNCHANGED <<genVars, rendVars>>
    /\ UNCHANGED appVars

\* what a lookup remembers of the call made just before it
Before(r) ==
    IF r.op = "save"
    THEN [op |-> "save", path |-> r.path, suffix |-> r.suffix, px |-> r.px,
          outcome |-> r.outcome]
    ELSE [op |-> r.op]

Get ==
    /\ nops < MaxOps
    /\ \E path \in Paths, suffix \in Suffixes, removeOk \in BOOLEAN :
          \* os.remove is only reached for a stale file
          /\ ~removeOk => /\ Exists(files, get_cache_path(path, suffix))
                          /\ files[get_cache_path(path, suffix)].mtime < source[path].mtime
          /\ files' = CachedImageFiles(files, path, suffix, removeOk)
          /\ cres' = [op |-> "get", path |-> path, suffix |-> suffix,
                      result |-> CachedImageResult(files, path, suffix),
                      after |-> Before(cres)]
    /\ nops' = nops + 1
    /\ UNCHANGED <<source, metadata, metadata_file, clock, written>>
    /\ UNCHANGED <<genVars, rendVars>>
    /\ UNCHANGED appVars

\* the source file is saved again: its mtime advances, its size may change
Touch ==
    /\ nops < MaxOps
    /\ \E path \in Paths, size \in SourceSizes, mtime \in Times :
          /\ mtime > source[path].mtime
          /\ source' = [source EXCEPT ![path] = [size |-> size, mtime |-> mtime]]
          /\ cres' = [op |-> "touch", path |-> path]
    /\ nops' = nops + 1
    /\ UNCHANGED <<files, metadata, metadata_file, clock, written>>
    /\ UNCHANGED <<genVars, rendVars>>
    /\ UNCHANGED appVars

Tick ==
    /\ clock < MaxTime
    /\ clock' = clock + 1
    /\ UNCHANGED <<source, files, metadata, metadata_file, nops, cres, written>>
    /\ UNCHANGED <<genVars, rendVars>>
    /\ UNCHANGED appVars

CacheNext == Save \/ Get \/ Touch \/ Tick

SpecCache == CacheInit /\ [][CacheNext]_vars

\* ------------------------------------------------------------------------
\* rendering.py: PSDFullRenderer.__init__, get_composite_image,
\* _on_composite_ready and the thread target
\* ------------------------------------------------------------------------
Pending == [kind |-> "pending"]

IsBitmap(x) == x.kind = "bitmap"

\* __init__: the cache is consulted when a file path was given and the
\* document has a composite attribute
ConsultsCache(doc, fpath) == fpath # NoPath /\ HasAttr(doc, "composite")

\* a file path with no file behind it: os.stat in _get_file_hash raises
MissingPaths == {"gone"}

SourceExists(p) == p \in DOMAIN source

\* the documents a renderer is built for in Spec: no layer or one layer, and
\* for the one-layer document also one without a composite attribute
RenderDocs ==
    {d \in Docs :
        /\ d.header = [present |-> TRUE, width |-> 2, height |-> 3]
        /\ d.width = 0
        /\ d.builtin.topil = "absent" /\ d.builtin.get_composite_image = "absent"
        /\ d.builtin.composite \in {"img", "absent"}
        /\ (d.builtin.composite = "absent" => Len(d.layers) = 1)
        /\ Len(d.layers) <= 1
        /\ \A i \in DOMAIN d.layers :
              d.layers[i].visible /\ d.layers[i].topil = "img"
              /\ d.layers[i].alpha_composite = "ok" /\ d.layers[i].width = 6}

\* what an earlier renderer for the same file saved under "_full": the
\* composite it generated from the document
EarlierPx(doc) == _generate_composite(doc, NoPath, TRUE).composite

\* what earlier runs left in the cache directory: nothing, or (for a
\* document whose composite is saved) a file for the source as it is now,
\* written at time 1, intact or undecodable
EarlierCaches(doc, p) ==
    {<<>>} \cup
    IF p \in Paths /\ _generate_composite(doc, p, TRUE).save
    THEN {[n \in {get_cache_path(p, "_full")} |->
             [mtime |-> 1, atime |-> 1, size |-> PngSize(EarlierPx(doc)),
              px |-> EarlierPx(doc), valid |-> v]] : v \in BOOLEAN}
    ELSE {}

Init ==
    /\ psd \in RenderDocs
    /\ filepath \in Paths \cup MissingPaths \cup {NoPath}
    /\ psd.builtin.composite = "absent" => filepath \in Paths
    /\ gout = [state |-> "idle"]
    /\ source \in [Paths -> [size : {1}, mtime : {1, 2}]]
    /\ clock = 2
    /\ metadata = <<>>
    /\ metadata_file = <<>>
    /\ nops = 0
    /\ written = {}
    /\ \E earlier \in EarlierCaches(psd, filepath) :
          \* a source dated later than the cache file: only with an intact file
          /\ \A p \in Paths : source[p].mtime = 2 =>
                \E n \in DOMAIN earlier : earlier[n].valid /\ psd.builtin.composite = "img"
          /\ IF ConsultsCache(psd, filepath) /\ SourceExists(filepath)
             THEN /\ files = CachedImageFiles(earlier, filepath, "_full", TRUE)
                  /\ composite = CachedImageResult(earlier, filepath, "_full")
                  /\ cres = [op |-> "get", path |-> filepath, suffix |-> "_full",
                             result |-> CachedImageResult(earlier, filepath, "_full")]
             ELSE IF ConsultsCache(psd, filepath)
             \* get_cached_image raised and __init__ caught it
             THEN /\ files = earlier
                  /\ composite = None
                  /\ cres = [op |-> "get", path |-> filepath, suffix |-> "_full",
                             result |-> None]
             ELSE /\ files = earlier
                  /\ composite = None
                  /\ cres = [op |-> "none"]
    /\ loading = FALSE
    /\ callbacks = <<>>
    /\ req = [t \in Threads |-> [pc |-> "idle", call |-> 0]]
    /\ workers = [w \in WorkerIds |-> NotStarted]
    /\ calls = <<>>
    /\ attached = <<>>
    /\ invoked = [w \in WorkerIds |-> <<>>]
    /\ AppIdle

\* a worker is running from Thread.start() until its target returns or raises
Running(w) == workers[w].pc \in {"gen", "store", "unload", "iter", "clear"}

\* _generate_composite has returned in some worker
SomeGenerationCompleted ==
    \E w \in WorkerIds : workers[w].pc \in {"store", "unload", "iter", "clear", "done"}

Return(t, c, value) ==
    /\ calls' = [calls EXCEPT ![c].ret = value]
    /\ req' = [req EXCEPT ![t] = [pc |-> "idle", call |-> 0]]

\* get_composite_image, entry: if self._composite is not None: return it
Request(t) ==
    /\ req[t].pc = "idle"
    /\ Len(calls) < MaxCalls
    /\ \E cb \in BOOLEAN :
          LET c == Len(calls) + 1
              call == [thread |-> t, callback |-> cb, early |-> ~SomeGenerationCompleted,
                       fresh |-> composite = None,
                       ret |-> IF composite # None THEN composite ELSE Pending]
          IN /\ calls' = Append(calls, call)
             /\ req' = [req EXCEPT ![t] = IF composite # None
                                          THEN [pc |-> "idle", call |-> 0]
                                          ELSE [pc |-> "append", call |-> c]]
    /\ UNCHANGED <<composite, loading, callbacks, workers, attached, invoked>>
    /\ UNCHANGED <<cacheVars, genVars>>
    /\ UNCHANGED appVars

\* if callback: self._callbacks.append(callback)
AppendCallback(t) ==
    /\ req[t].pc = "append"
    /\ LET c == req[t].call
       IN IF calls[c].callback
          THEN /\ callbacks' = Append(callbacks, c)
               /\ attached' = Append(attached, c)
          ELSE UNCHANGED <<callbacks, attached>>
    /\ req' = [req EXCEPT ![t].pc = "check"]
    /\ UNCHANGED <<composite, loading, workers, calls, invoked>>
    /\ UNCHANGED <<cacheVars, genVars>>
    /\ UNCHANGED appVars

\* if not self._loading: ... ; return None
CheckLoading(t) ==
    /\ req[t].pc = "check"
    /\ IF loading
       THEN Return(t, req[t].call, None)
       ELSE /\ req' = [req EXCEPT ![t].pc = "set"]
            /\ UNCHANGED calls
    /\ UNCHANGED <<composite, loading, callbacks, workers, attached, invoked>>
    /\ UNCHANGED <<cacheVars, genVars>>
    /\ UNCHANGED appVars

\* self._loading = True
SetLoading(t) ==
    /\ req[t].pc = "set"
    /\ loading' = TRUE
    /\ req' = [req EXCEPT ![t].pc = "start"]
    /\ UNCHANGED <<composite, callbacks, workers, calls, attached, invoked>>
    /\ UNCHANGED <<cacheVars, genVars>>
    /\ UNCHANGED appVars

\* a call that runs the thread's target itself (Thread.run() for start())
\* and returns when the generation is over
StartThreadRun(t) ==
    /\ req[t].pc = "start"
    /\ LET w == CHOOSE v \in WorkerIds :
                    /\ workers[v] = NotStarted
                    /\ \A u \in WorkerIds : u < v => workers[u] # NotStarted
       IN workers' = [workers EXCEPT ![w] =
                         [pc |-> "store", idx |-> 0, save |-> "none",
                          result |-> [kind |-> "bitmap", id |-> w,
                                      px |-> _generate_composite(psd, NoPath, TRUE).composite]]]
    /\ Return(t, req[t].call, None)
    /\ UNCHANGED <<composite, loading, callbacks, attached, invoked>>
    /\ UNCHANGED <<cacheVars, genVars>>
    /\ UNCHANGED appVars

\* threading.Thread(target=..., daemon=True).start(); return None
StartThread(t) ==
    /\ req[t].pc = "start"
    /\ LET w == CHOOSE v \in WorkerIds :
                    /\ workers[v] = NotStarted
                    /\ \A u \in WorkerIds : u < v => workers[u] # NotStarted
       IN workers' = [workers EXCEPT ![w].pc = "gen"]
    /\ Return(t, req[t].call, None)
    /\ UNCHANGED <<composite, loading, callbacks, attached, invoked>>
    /\ UNCHANGED <<cacheVars, genVars>>
    /\ UNCHANGED appVars

\* _generate_composite whose cache save is not guarded: a failed save ends
\* the generation with the exception
GenerateResultSaveFatal(w, r, outcome) ==
    IF r.raised \/ (r.save /\ outcome # "ok")
    THEN [pc |-> "raised", idx |-> 0, result |-> None, save |-> "none"]
    ELSE [pc |-> "store", idx |-> 0,
          result |-> [kind |-> "bitmap", id |-> w, px |-> r.composite],
          save |-> IF r.save THEN outcome ELSE "none"]

\* the end of _generate_composite in worker w: the save to the cache is
\* attempted inside try/except, then the composite is returned (a new bitmap
\* object, id w); save is what became of the attempt
GenerateResult(w, r, outcome) ==
    IF r.raised
    THEN [pc |-> "raised", idx |-> 0, result |-> None, save |-> "none"]
    ELSE [pc |-> "store", idx |-> 0,
          result |-> [kind |-> "bitmap", id |-> w, px |-> r.composite],
          save |-> IF r.save THEN outcome ELSE "none"]

\* the thread target evaluates self._generate_composite(); when that raises
\* nothing in the target catches it and the thread ends. With a file path
\* that has no file save_image_to_cache fails in get_cache_path
WorkerGenerate(w) ==
    /\ workers[w].pc = "gen"
    /\ \E placeholder_ok \in BOOLEAN, outcome \in {"ok", "fail"} :
          LET r == _generate_composite(psd, filepath, placeholder_ok)
          IN /\ (r.save /\ ~SourceExists(filepath)) => outcome = "fail"
             /\ workers' = [workers EXCEPT ![w] = GenerateResult(w, r, outcome)]
             /\ IF r.save
                THEN /\ save_image_to_cache(r.composite, filepath, "_full",
                                            PngSize(r.composite), outcome, {})
                     /\ cres' = [op |-> "save", path |-> filepath, suffix |-> "_full",
                                 px |-> r.composite, outcome |-> outcome]
                ELSE UNCHANGED <<files, metadata, metadata_file, written, cres>>
    /\ UNCHANGED <<source, clock, nops, genVars>>
    /\ UNCHANGED <<composite, loading, callbacks, req, calls, attached, invoked>>
    /\ UNCHANGED appVars

\* _on_composite_ready: self._composite = composite
StoreComposite(w) ==
    /\ workers[w].pc = "store"
    /\ composite' = workers[w].result
    /\ workers' = [workers EXCEPT ![w].pc = "unload"]
    /\ UNCHANGED <<loading, callbacks, req, calls, attached, invoked>>
    /\ UNCHANGED <<cacheVars, genVars>>
    /\ UNCHANGED appVars

\* _on_composite_ready: self._loading = False
ClearLoading(w) ==
    /\ workers[w].pc = "unload"
    /\ loading' = FALSE
    /\ workers' = [workers EXCEPT ![w] = [@ EXCEPT !.pc = "iter", !.idx = 1]]
    /\ UNCHANGED <<composite, callbacks, req, calls, attached, invoked>>
    /\ UNCHANGED <<cacheVars, genVars>>
    /\ UNCHANGED appVars

\* a loop that takes the callbacks from the end of the list
CallbackAtFromEnd(cbs, idx) == cbs[Len(cbs) + 1 - idx]

\* the callback the list iterator yields at its idx-th step
CallbackAt(cbs, idx) == cbs[idx]

\* _on_composite_ready: one pass of "for callback in self._callbacks"; the
\* list iterator ends as soon as its index is past the end of the list
InvokeCallbacks(w) ==
    /\ workers[w].pc = "iter"
    /\ IF workers[w].idx <= Len(callbacks)
       THEN /\ invoked' = [invoked EXCEPT ![w] = Append(@,
                    [callback |-> CallbackAt(callbacks, workers[w].idx),
                     bitmap |-> workers[w].result, held |-> composite,
                     raised |-> FALSE])]
            /\ workers' = [workers EXCEPT ![w].idx = @ + 1]
       ELSE /\ workers' = [workers EXCEPT ![w].pc = "clear"]
            /\ UNCHANGED invoked
    /\ UNCHANGED <<composite, loading, callbacks, req, calls, attached>>
    /\ UNCHANGED <<cacheVars, genVars>>
    /\ UNCHANGED appVars

\* _on_composite_ready: self._callbacks.clear(); the target returns
ClearCallbacks(w) ==
    /\ workers[w].pc = "clear"
    /\ callbacks' = <<>>
    /\ workers' = [workers EXCEPT ![w].pc = "done"]
    /\ UNCHANGED <<composite, loading, req, calls, attached, invoked>>
    /\ UNCHANGED <<cacheVars, genVars>>
    /\ UNCHANGED appVars

Next ==
    \/ \E t \in Threads : Request(t)
    \/ \E t \in Threads : AppendCallback(t)
    \/ \E t \in Threads : CheckLoading(t)
    \/ \E t \in Threads : SetLoading(t)
    \/ \E t \in Threads : StartThread(t)
    \/ \E w \in WorkerIds : WorkerGenerate(w)
    \/ \E w \in WorkerIds : StoreComposite(w)
    \/ \E w \in WorkerIds : ClearLoading(w)
    \/ \E w \in WorkerIds : InvokeCallbacks(w)
    \/ \E w \in WorkerIds : ClearCallbacks(w)

Spec == Init /\ [][Next]_vars

\* ------------------------------------------------------------------------
\* models/psd.py: PSDDocument.set_layer_visibility, called by the UI thread
\* (between its calls to get_composite_image) on the document the renderer
\* was built for
\* ------------------------------------------------------------------------
\* the names asked for: those of the document's layers, and 0, the name of
\* no layer
LayerNames(doc) == {0} \cup {doc.layers[i].name : i \in DOMAIN doc.layers}

\* layer.is_group(): a group is a layer that has children
IsGroup(layer) == "children" \in DOMAIN layer

RECURSIVE set_visibility(_, _, _), VisitLayers(_, _, _, _)
\* a set_visibility that looks at the layer it is given and never at the
\* children of a group
set_visibilityNoDescent(layer, name, is_visible) ==
    IF layer.name = name
    THEN [found |-> TRUE, layer |-> [layer EXCEPT !.visible = is_visible]]
    ELSE [found |-> FALSE, layer |-> layer]

\* the nested set_visibility(layer, name, is_visible): what it returns and
\* the layer afterwards
set_visibility(layer, name, is_visible) ==
    IF layer.name = name
    THEN [found |-> TRUE, layer |-> [layer EXCEPT !.visible = is_visible]]
    ELSE IF IsGroup(layer)
         THEN LET r == VisitLayers(layer.children, 1, name, is_visible)
              IN [found |-> r.found, layer |-> [layer EXCEPT !.children = r.layers]]
         ELSE [found |-> FALSE, layer |-> layer]

\* "for layer in ...: if set_visibility(layer, ...): return True" followed by
\* "return False", over self.psd and over the children of a group; i is the
\* position of the loop
VisitLayers(layers, i, name, is_visible) ==
    IF i > Len(layers) THEN [found |-> FALSE, layers |-> layers]
    ELSE LET r == set_visibility(layers[i], name, is_visible)
         IN IF r.found
            THEN [found |-> TRUE, layers |-> [layers EXCEPT ![i] = r.layer]]
            ELSE VisitLayers(layers, i + 1, name, is_visible)

\* PSDDocument.set_layer_visibility on the document doc (None when no
\* document is loaded; a document without layers is falsy)
set_layer_visibility(doc, layer_name, visible) ==
    IF doc = None \/ doc.layers = <<>>
    THEN [found |-> FALSE, doc |-> doc]
    ELSE LET r == VisitLayers(doc.layers, 1, layer_name, visible)
         IN [found |-> r.found, doc |-> [doc EXCEPT !.layers = r.layers]]

\* a set_layer_visibility that also drops the composite the renderer holds
SetLayerVisibilityInvalidating ==
    /\ \A t \in Threads : req[t].pc = "idle"
    /\ \E layer_name \in LayerNames(psd), visible \in BOOLEAN :
          psd' = set_layer_visibility(psd, layer_name, visible).doc
    /\ composite' = None
    /\ UNCHANGED <<filepath, gout, cacheVars>>
    /\ UNCHANGED <<loading, callbacks, req, workers, calls, attached, invoked>>
    /\ UNCHANGED appVars

SetLayerVisibility ==
    /\ \A t \in Threads : req[t].pc = "idle"
    /\ \E layer_name \in LayerNames(psd), visible \in BOOLEAN :
          psd' = set_layer_visibility(psd, layer_name, visible).doc
    /\ UNCHANGED <<filepath, gout, cacheVars, rendVars>>
    /\ UNCHANGED appVars

DocNext ==
    \/ Next
    \/ SetLayerVisibility

\* a document with one layer, loaded from an existing file, and its renderer
DocInit ==
    /\ Init
    /\ Len(psd.layers) = 1
    /\ psd.builtin.composite = "img"
    /\ filepath \in Paths
    /\ \A p \in Paths : source[p].mtime = 1
    /\ \A n \in DOMAIN files : files[n].valid

SpecDoc == DocInit /\ [][DocNext]_vars

\* ------------------------------------------------------------------------
\* controllers/psd_controller.py: PSDController.set_layer_visibility on
\* documents whose layer tree has groups
\* ------------------------------------------------------------------------
TreeNames == {1, 2}

\* sequences of at most two elements of S
UpToTwo(S) == {<<>>} \cup {<<a>> : a \in S} \cup {<<a, b>> : a \in S, b \in S}

Leaves == [name : TreeNames, visible : BOOLEAN]

\* groups of leaves, and groups that hold at most one leaf or group of leaves
InnerGroups == [name : TreeNames, visible : {TRUE}, children : UpToTwo(Leaves)]

OuterGroups ==
    [name : TreeNames, visible : {TRUE},
     children : {<<>>} \cup {<<a>> : a \in Leaves \cup InnerGroups}]

\* self.psd_doc: no document, or a document with up to two top-level layers
TreeDocs == {None} \cup [layers : UpToTwo(Leaves \cup OuterGroups)]

TreeInit ==
    /\ psd \in TreeDocs
    /\ filepath = NoPath
    /\ gout = [state |-> "idle"]
    /\ source = [p \in Paths |-> [size |-> 1, mtime |-> 1]]
    /\ files = <<>>
    /\ metadata = <<>>
    /\ metadata_file = <<>>
    /\ clock = 1
    /\ nops = 0
    /\ cres = [op |-> "none"]
    /\ written = {}
    /\ composite = None
    /\ loading = FALSE
    /\ callbacks = <<>>
    /\ req = [t \in Threads |-> [pc |-> "idle", call |-> 0]]
    /\ workers = [w \in WorkerIds |-> NotStarted]
    /\ calls = <<>>
    /\ attached = <<>>
    /\ invoked = [w \in WorkerIds |-> <<>>]
    /\ AppIdle

\* PSDController.set_layer_visibility(layer_name, visible): False without a
\* document, else what the document's set_layer_visibility returns
ControllerSetLayerVisibility ==
    /\ vret.op = "none"
    /\ \E layer_name \in {0} \cup TreeNames, visible \in BOOLEAN :
          LET r == set_layer_visibility(psd, layer_name, visible)
          IN /\ psd' = r.doc
             /\ vret' = [op |-> "set_layer_visibility", name |-> layer_name,
                         visible |-> visible, found |-> r.found, before |-> psd]
    /\ UNCHANGED <<filepath, gout, cacheVars, rendVars, openVars, lightVars, drawVars>>

TreeNext == ControllerSetLayerVisibility

SpecTree == TreeInit /\ [][TreeNext]_vars

\* ------------------------------------------------------------------------
\* rendering.py: _on_composite_ready with callbacks that raise
\* ------------------------------------------------------------------------
\* _on_composite_ready: one pass of "for callback in self._callbacks" in
\* which callback(composite) raises; the except clause logs the exception and
\* the loop goes on.  rest is what the list held behind the callback then.
InvokeCallbackRaising(w) ==
    /\ workers[w].pc = "iter"
    /\ workers[w].idx <= Len(callbacks)
    /\ invoked' = [invoked EXCEPT ![w] = Append(@,
             [callback |-> CallbackAt(callbacks, workers[w].idx),
              bitmap |-> workers[w].result, held |-> composite, raised |-> TRUE,
              rest |-> SubSeq(callbacks, workers[w].idx + 1, Len(callbacks))])]
    /\ workers' = [workers EXCEPT ![w].idx = @ + 1]
    /\ UNCHANGED <<composite, loading, callbacks, req, calls, attached>>
    /\ UNCHANGED <<cacheVars, genVars>>
    /\ UNCHANGED appVars

CbNext ==
    \/ Next
    \/ \E w \in WorkerIds : InvokeCallbackRaising(w)

\* a renderer for an existing file whose document composites
SpecCb == DocInit /\ [][CbNext]_vars

\* ------------------------------------------------------------------------
\* Opening a document: rendering.py create_renderer, models/psd.py
\* PSDDocument.from_file, controllers/psd_controller.py PSDController.load_psd
\* and views/psd_view.py PSDView.load_psd
\* ------------------------------------------------------------------------
\* os.path.splitext(filepath)[0] + '_preview.png'; the paths of the model
\* carry no extension
PreviewPath(p) == p \o "_preview.png"

\* the render modes a caller can pass; only 'full' and 'light' are supported
RenderModes == {"full", "light", "tiled"}

\* what the file at an existing path holds
Contents == {"psd", "garbage"}

\* PSDFullRenderer.__init__(psd, filepath) for a PSDImage: the bitmap held
\* after the cache lookup; a lookup that raises (no file at filepath) is caught
InitialComposite(fs, fpath) ==
    IF fpath # NoPath /\ SourceExists(fpath)
    THEN CachedImageResult(fs, fpath, "_full")
    ELSE None

\* PSDFullRenderer.__init__(psd, filepath): the cache directory afterwards
InitialFiles(fs, fpath) ==
    IF fpath # NoPath /\ SourceExists(fpath)
    THEN CachedImageFiles(fs, fpath, "_full", TRUE)
    ELSE fs

\* a factory that builds the Light renderer whatever the preview path
create_rendererUnchecked(fs, render_mode, preview_path) ==
    IF render_mode = "full"
    THEN [raised |-> "none", files |-> InitialFiles(fs, preview_path),
          renderer |-> [kind |-> "full", filepath |-> preview_path,
                        composite |-> InitialComposite(fs, preview_path)]]
    ELSE IF render_mode = "light"
    THEN [raised |-> "none", files |-> fs,
          renderer |-> [kind |-> "light", preview_path |-> preview_path,
                        png_image |-> None]]
    ELSE [raised |-> "ValueError", files |-> fs, renderer |-> None]

\* create_renderer(psd, render_mode, preview_path): the exception raised, the
\* renderer built and the cache directory after the constructor's lookup
create_renderer(fs, render_mode, preview_path) ==
    IF render_mode = "full"
    THEN [raised |-> "none", files |-> InitialFiles(fs, preview_path),
          renderer |-> [kind |-> "full", filepath |-> preview_path,
                        composite |-> InitialComposite(fs, preview_path)]]
    ELSE IF render_mode = "light"
    THEN IF preview_path = NoPath
         THEN [raised |-> "ValueError", files |-> fs, renderer |-> None]
         ELSE [raised |-> "none", files |-> fs,
               renderer |-> [kind |-> "light", preview_path |-> preview_path,
                             png_image |-> None]]
    ELSE [raised |-> "ValueError", files |-> fs, renderer |-> None]

\* PSDDocument.from_file(filepath, render_mode) of models/psd.py: the
\* exception raised (and the one it was raised from), the document built
\* (with the given id) and the cache directory afterwards.  PSDImage.open
\* raises PermissionError on an unreadable file and a parse error on a file
\* that is no PSD; every exception of the try block leaves as ValueError.
from_file(fs, path, readable, content, render_mode, id) ==
    IF ~SourceExists(path)
    THEN [raised |-> "FileNotFoundError", cause |-> "none", doc |-> None, files |-> fs]
    ELSE IF ~readable
    THEN [raised |-> "ValueError", cause |-> "PermissionError", doc |-> None, files |-> fs]
    ELSE IF content # "psd"
    THEN [raised |-> "ValueError", cause |-> "ParseError", doc |-> None, files |-> fs]
    ELSE LET r == create_renderer(fs, render_mode, PreviewPath(path))
         IN IF r.raised # "none"
            THEN [raised |-> "ValueError", cause |-> r.raised, doc |-> None, files |-> r.files]
            ELSE [raised |-> "none", cause |-> "none", files |-> r.files,
                  doc |-> [id |-> id, filepath |-> path, render_mode |-> render_mode,
                           renderer |-> r.renderer]]

\* the files a call can meet: none at the path, one that cannot be read, one
\* that is no PSD, or a PSD
FileCase(path, readable, content) ==
    /\ ~SourceExists(path) => readable /\ content = "psd"
    /\ ~readable => content = "psd"

\* what can go wrong inside PSDView.load_psd once the controller has opened
\* the file: the view's own PSDDocument.from_file raises, or building and
\* asking the view's PSDFullRenderer raises
ViewOutcomes == {"ok", "open_fails", "composite_fails"}

\* PSDView.load_psd(filepath, render_mode) for a file that exists: the
\* exception raised, the value returned, the view's psd_doc and the cleaned
\* documents afterwards, and the cache directory after the lookups made.
\* vd is the view's psd_doc and cl the cleaned documents before the call.
view_load_psd(fs, vd, cl, path, render_mode, outcome, id) ==
    LET light == render_mode = "light"
        cleanedNow == IF vd # None THEN cl \cup {vd.id} ELSE cl
        cached_preview == IF light THEN CachedImageResult(fs, path, "_preview") ELSE None
        f1 == IF light THEN CachedImageFiles(fs, path, "_preview", TRUE) ELSE fs
        doc == [id |-> id, filepath |-> path, render_mode |-> render_mode]
        cached_composite == IF light THEN CachedImageResult(f1, path, "_full") ELSE None
        f2 == IF light THEN CachedImageFiles(f1, path, "_full", TRUE) ELSE f1
    IN  IF cached_preview # None
        \* shown from the cache; the document is loaded by a background thread
        THEN [raised |-> "none", ret |-> "True", view_doc |-> None,
              cleaned |-> cleanedNow, files |-> f1, built |-> FALSE]
        ELSE IF outcome = "open_fails"
        THEN [raised |-> "ValueError", ret |-> "none", view_doc |-> None,
              cleaned |-> cleanedNow, files |-> f1, built |-> FALSE]
        ELSE IF cached_composite # None
        THEN [raised |-> "none", ret |-> "True", view_doc |-> doc,
              cleaned |-> cleanedNow, files |-> f2, built |-> TRUE]
        ELSE IF outcome = "composite_fails"
        THEN [raised |-> "none", ret |-> "False", view_doc |-> doc,
              cleaned |-> cleanedNow, files |-> InitialFiles(f2, path), built |-> TRUE]
        ELSE [raised |-> "none", ret |-> "True", view_doc |-> doc,
              cleaned |-> cleanedNow, files |-> InitialFiles(f2, path), built |-> TRUE]

\* the record of a PSDController.load_psd call: its arguments, what the file
\* held, how it ended and what the controller and the view held before it
LoadResult(path, readable, content, render_mode, outcome, raised, ret) ==
    [op |-> "load_psd", path |-> path, readable |-> readable, content |-> content,
     render_mode |-> render_mode, view |-> outcome, raised |-> raised, ret |-> ret,
     before |-> [ctl |-> ctl_doc, view |-> view_doc, cleaned |-> cleaned]]

\* PSDController.load_psd(filepath, render_mode); a render_mode of None is
\* replaced by the dialog's 'light' or 'full'
LoadPsd ==
    /\ ndocs < MaxOps
    /\ \E path \in Paths \cup MissingPaths, readable \in BOOLEAN, content \in Contents,
          render_mode \in RenderModes, outcome \in ViewOutcomes :
          /\ FileCase(path, readable, content)
          /\ outcome # "ok" => content = "psd" /\ readable /\ render_mode # "tiled"
          /\ LET m == from_file(files, path, readable, content, render_mode, ndocs + 1)
                 v == view_load_psd(m.files, view_doc, cleaned, path, render_mode,
                                    outcome, ndocs + 2)
             IN IF ~SourceExists(path)
                THEN /\ oret' = LoadResult(path, readable, content, render_mode, outcome,
                                           "FileNotFoundError", "none")
                     /\ UNCHANGED <<ctl_doc, view_doc, cleaned, ndocs, files>>
                ELSE IF ~readable
                THEN /\ oret' = LoadResult(path, readable, content, render_mode, outcome,
                                           "PermissionError", "none")
                     /\ UNCHANGED <<ctl_doc, view_doc, cleaned, ndocs, files>>
                ELSE IF render_mode \notin {"light", "full"}
                THEN /\ oret' = LoadResult(path, readable, content, render_mode, outcome,
                                           "ValueError", "none")
                     /\ UNCHANGED <<ctl_doc, view_doc, cleaned, ndocs, files>>
                ELSE IF m.raised # "none"
                THEN /\ oret' = LoadResult(path, readable, content, render_mode, outcome,
                                           "ValueError", "none")
                     /\ files' = m.files
                     /\ UNCHANGED <<ctl_doc, view_doc, cleaned, ndocs>>
                ELSE /\ ctl_doc' = m.doc
                     /\ view_doc' = v.view_doc
                     /\ cleaned' = v.cleaned
                     /\ files' = v.files
                     /\ ndocs' = IF v.built THEN ndocs + 2 ELSE ndocs + 1
                     /\ oret' = LoadResult(path, readable, content, render_mode, outcome,
                                           v.raised, v.ret)
    /\ UNCHANGED <<source, metadata, metadata_file, clock, nops, cres, written>>
    /\ UNCHANGED <<genVars, rendVars, treeVars, lightVars, drawVars>>

\* a direct call of PSDDocument.from_file(filepath, render_mode); keyed is
\* what the cache held for the opened file itself before the call
FromFile ==
    /\ ndocs < MaxOps
    /\ \E path \in Paths \cup MissingPaths, readable \in BOOLEAN, content \in Contents,
          render_mode \in RenderModes :
          /\ FileCase(path, readable, content)
          /\ LET m == from_file(files, path, readable, content, render_mode, ndocs + 1)
             IN /\ oret' = [op |-> "from_file", path |-> path, readable |-> readable,
                            content |-> content, render_mode |-> render_mode,
                            raised |-> m.raised, cause |-> m.cause, doc |-> m.doc,
                            keyed |-> InitialComposite(files, path)]
                /\ files' = m.files
                /\ ndocs' = IF m.raised = "none" THEN ndocs + 1 ELSE ndocs
    /\ UNCHANGED <<ctl_doc, view_doc, cleaned>>
    /\ UNCHANGED <<source, metadata, metadata_file, clock, nops, cres, written>>
    /\ UNCHANGED <<genVars, rendVars, treeVars, lightVars, drawVars>>

\* a direct call of create_renderer(psd, render_mode, preview_path)
CreateRenderer ==
    /\ \E render_mode \in RenderModes,
          preview_path \in {NoPath} \cup {PreviewPath(p) : p \in Paths} :
          LET r == create_renderer(files, render_mode, preview_path)
          IN /\ oret' = [op |-> "create_renderer", render_mode |-> render_mode,
                         preview_path |-> preview_path, raised |-> r.raised,
                         renderer |-> r.renderer]
             /\ files' = r.files
    /\ UNCHANGED <<ctl_doc, view_doc, cleaned, ndocs>>
    /\ UNCHANGED <<source, metadata, metadata_file, clock, nops, cres, written>>
    /\ UNCHANGED <<genVars, rendVars, treeVars, lightVars, drawVars>>

\* the files an earlier run can have left in the cache directory: for each
\* existing file, nothing or the composite saved under that file's key
OpenCaches ==
    LET keys == {get_cache_path(p, "_full") : p \in DOMAIN source}
    IN { [n \in K |-> [mtime |-> 1, atime |-> 1, size |-> 1, px |-> "px1", valid |-> TRUE]]
         : K \in SUBSET keys }

\* the PSD file exists; its preview PNG may exist beside it
OpenInit ==
    /\ \E previews \in SUBSET {PreviewPath(p) : p \in Paths} :
          source \in [Paths \cup previews -> [size : {1}, mtime : {1}]]
    /\ files \in OpenCaches
    /\ metadata = <<>>
    /\ metadata_file = <<>>
    /\ clock = 2
    /\ nops = 0
    /\ cres = [op |-> "none"]
    /\ written = {}
    /\ psd = [layers |-> <<>>]
    /\ filepath = NoPath
    /\ gout = [state |-> "idle"]
    /\ composite = None
    /\ loading = FALSE
    /\ callbacks = <<>>
    /\ req = [t \in Threads |-> [pc |-> "idle", call |-> 0]]
    /\ workers = [w \in WorkerIds |-> NotStarted]
    /\ calls = <<>>
    /\ attached = <<>>
    /\ invoked = [w \in WorkerIds |-> <<>>]
    /\ AppIdle

OpenNext == LoadPsd \/ FromFile \/ CreateRenderer

SpecOpen == OpenInit /\ [][OpenNext]_vars

\* ------------------------------------------------------------------------
\* rendering.py: PSDLightRenderer
\* ------------------------------------------------------------------------
\* the documents a Light renderer is built for: no layers, every combination
\* of the three accessors
LightDocs ==
    {d \in Docs :
        /\ d.header = [present |-> TRUE, width |-> 2, height |-> 3]
        /\ d.width = 0
        /\ d.layers = <<>>}

\* how composite.save(self.preview_path, format='PNG') can end: written,
\* raised with the file as it was, raised with a partial file left behind
WriteOutcomes == {"ok", "fail", "partial"}

\* a conversion that holds the bitmap before it writes the file
_convert_to_pngHoldFirst(doc, file, write) ==
    IF doc.builtin.composite \in {"absent", "none"}
    THEN [raised |-> "AttributeError", png_image |-> None, file |-> file, composed |-> doc.builtin.composite = "none"]
    ELSE IF doc.builtin.composite = "raise"
    THEN [raised |-> "Exception", png_image |-> None, file |-> file, composed |-> TRUE]
    ELSE IF write = "ok"
    THEN [raised |-> "none", png_image |-> BuiltinPx("composite"),
          file |-> BuiltinPx("composite"), composed |-> TRUE]
    ELSE [raised |-> "OSError", png_image |-> BuiltinPx("composite"),
          file |-> IF write = "partial" THEN [kind |-> "partial"] ELSE file,
          composed |-> TRUE]

\* PSDLightRenderer._convert_to_png() while no bitmap is held: the exception
\* raised, _png_image and the preview file afterwards, and whether
\* psd.composite() was called.  A document without composite, or whose
\* composite() returns None, fails with AttributeError.
_convert_to_png(doc, file, write) ==
    IF doc.builtin.composite \in {"absent", "none"}
    THEN [raised |-> "AttributeError", png_image |-> None, file |-> file, composed |-> doc.builtin.composite = "none"]
    ELSE IF doc.builtin.composite = "raise"
    THEN [raised |-> "Exception", png_image |-> None, file |-> file, composed |-> TRUE]
    ELSE IF write = "ok"
    THEN [raised |-> "none", png_image |-> BuiltinPx("composite"),
          file |-> BuiltinPx("composite"), composed |-> TRUE]
    ELSE [raised |-> "OSError", png_image |-> None,
          file |-> IF write = "partial" THEN [kind |-> "partial"] ELSE file,
          composed |-> TRUE]

\* PSDLightRenderer.get_composite_image()
LightGetCompositeImage ==
    \E write \in WriteOutcomes :
       /\ write # "ok" => png_image = None /\ psd.builtin.composite = "img"
       /\ IF png_image # None
          THEN /\ lret' = [op |-> "get_composite_image", write |-> write, raised |-> "none",
                           ret |-> png_image, composed |-> FALSE,
                           before |-> [png_image |-> png_image, file |-> preview_file]]
               /\ UNCHANGED <<png_image, preview_file, ncomposite>>
          ELSE LET r == _convert_to_png(psd, preview_file, write)
               IN /\ ncomposite < MaxCalls
                  /\ png_image' = r.png_image
                  /\ preview_file' = r.file
                  /\ ncomposite' = IF r.composed THEN ncomposite + 1 ELSE ncomposite
                  /\ lret' = [op |-> "get_composite_image", write |-> write,
                              raised |-> r.raised,
                              ret |-> IF r.raised = "none" THEN r.png_image ELSE None,
                              composed |-> r.composed,
                              before |-> [png_image |-> png_image, file |-> preview_file]]
       /\ UNCHANGED <<cacheVars, genVars, rendVars, treeVars, openVars, drawVars>>

\* PSDLightRenderer.cleanup(): closes and drops the held bitmap
LightCleanup ==
    /\ png_image # None
    /\ png_image' = None
    /\ lret' = [op |-> "cleanup"]
    /\ UNCHANGED <<preview_file, ncomposite>>
    /\ UNCHANGED <<cacheVars, genVars, rendVars, treeVars, openVars, drawVars>>

\* a Light renderer just built by create_renderer for one of the documents;
\* the preview file of an earlier session may exist
LightInit ==
    /\ psd \in LightDocs
    /\ filepath = NoPath
    /\ gout = [state |-> "idle"]
    /\ source = [p \in Paths |-> [size |-> 1, mtime |-> 1]]
    /\ files = <<>>
    /\ metadata = <<>>
    /\ metadata_file = <<>>
    /\ clock = 1
    /\ nops = 0
    /\ cres = [op |-> "none"]
    /\ written = {}
    /\ composite = None
    /\ loading = FALSE
    /\ callbacks = <<>>
    /\ req = [t \in Threads |-> [pc |-> "idle", call |-> 0]]
    /\ workers = [w \in WorkerIds |-> NotStarted]
    /\ calls = <<>>
    /\ attached = <<>>
    /\ invoked = [w \in WorkerIds |-> <<>>]
    /\ vret = [op |-> "none"]
    /\ ctl_doc = None
    /\ view_doc = None
    /\ cleaned = {}
    /\ ndocs = 0
    /\ oret = [op |-> "none"]
    /\ png_image = create_renderer(files, "light", PreviewPath("a")).renderer.png_image
    /\ preview_file \in {None, [kind |-> "old"]}
    /\ ncomposite = 0
    /\ lret = [op |-> "none"]
    /\ drawing_layers = <<1>>
    /\ active_layer_id = 1
    /\ view_active_layer_id = 1
    /\ dret = [op |-> "none"]

LightNext == LightGetCompositeImage \/ LightCleanup

SpecLight == LightInit /\ [][LightNext]_vars

\* ------------------------------------------------------------------------
\* controllers/drawing_controller.py: DrawingController.add_layer,
\* delete_layer, move_layer; views/drawing_view.py: DrawingView.add_layer.
\* A layer is modelled by its id.  DrawingController.layers is the list object
\* DrawingView.get_layers() returned, DrawingView.drawing_layers itself.
\* ------------------------------------------------------------------------
RECURSIVE MaxId(_)
\* max((layer.id for layer in self.drawing_layers), default=0)
MaxId(ls) ==
    IF ls = <<>> THEN 0
    ELSE LET m == MaxId(Tail(ls)) IN IF Head(ls) > m THEN Head(ls) ELSE m

\* ids numbered by the length of the list
NewLayerIdByCount(ls) == Len(ls) + 1

\* DrawingView.add_layer: layer_id
NewLayerId(ls) == MaxId(ls) + 1

\* next((i for i, l in enumerate(self.layers) if l.id == layer_id), -1), with
\* positions counted from 1 and 0 for Python's -1
IndexOf(ls, layer_id) ==
    IF \E i \in DOMAIN ls : ls[i] = layer_id
    THEN CHOOSE i \in DOMAIN ls : ls[i] = layer_id /\ \A j \in 1..(i - 1) : ls[j] # layer_id
    ELSE 0

\* del self.layers[i]
RemoveAt(ls, i) == SubSeq(ls, 1, i - 1) \o SubSeq(ls, i + 1, Len(ls))

\* self.layers[i], self.layers[j] = self.layers[j], self.layers[i]
Swap(ls, i, j) == [ls EXCEPT ![i] = ls[j], ![j] = ls[i]]

\* the ids a caller can pass; 0 is no layer's id
LayerIds == 0..(MaxOps + 1)

Directions == {"up", "down", "left"}

\* DrawingController.add_layer(name): DrawingView.add_layer appends a layer
\* with a new id and makes it active, the controller takes the view's list
\* and the new id
AddLayer ==
    /\ Len(drawing_layers) <= MaxLayers
    /\ NewLayerId(drawing_layers) <= MaxOps + 1
    /\ drawing_layers' = Append(drawing_layers, NewLayerId(drawing_layers))
    /\ view_active_layer_id' = NewLayerId(drawing_layers)
    /\ active_layer_id' = NewLayerId(drawing_layers)
    /\ dret' = [op |-> "add_layer", raised |-> "none", before |-> drawing_layers]
    /\ UNCHANGED <<cacheVars, genVars, rendVars, treeVars, openVars, lightVars>>

\* DrawingController.delete_layer(layer_id); DrawingView has no set_layers,
\* so the call after the removal raises AttributeError
DeleteLayer ==
    /\ \E layer_id \in LayerIds :
          LET layer_idx == IndexOf(drawing_layers, layer_id)
              rest == RemoveAt(drawing_layers, layer_idx)
              k == IF layer_idx > Len(rest) THEN Len(rest) ELSE layer_idx
          IN IF Len(drawing_layers) <= 1 \/ layer_idx = 0
             THEN /\ dret' = [op |-> "delete_layer", layer_id |-> layer_id,
                              raised |-> "none", before |-> drawing_layers]
                  /\ UNCHANGED <<drawing_layers, active_layer_id>>
             ELSE /\ drawing_layers' = rest
                  /\ active_layer_id' = rest[k]
                  /\ dret' = [op |-> "delete_layer", layer_id |-> layer_id,
                              raised |-> "AttributeError", before |-> drawing_layers]
    /\ UNCHANGED view_active_layer_id
    /\ UNCHANGED <<cacheVars, genVars, rendVars, treeVars, openVars, lightVars>>

\* DrawingController.move_layer(layer_id, direction); after a swap the call of
\* DrawingView.set_layers raises AttributeError
MoveLayer ==
    /\ \E layer_id \in LayerIds, direction \in Directions :
          LET idx == IndexOf(drawing_layers, layer_id)
          IN IF direction = "up" /\ idx > 1
             THEN /\ drawing_layers' = Swap(drawing_layers, idx, idx - 1)
                  /\ dret' = [op |-> "move_layer", layer_id |-> layer_id,
                              direction |-> direction, raised |-> "AttributeError",
                              before |-> drawing_layers]
             ELSE IF direction = "down" /\ 1 <= idx /\ idx < Len(drawing_layers)
             THEN /\ drawing_layers' = Swap(drawing_layers, idx, idx + 1)
                  /\ dret' = [op |-> "move_layer", layer_id |-> layer_id,
                              direction |-> direction, raised |-> "AttributeError",
                              before |-> drawing_layers]
             ELSE /\ dret' = [op |-> "move_layer", layer_id |-> layer_id,
                              direction |-> direction, raised |-> "none",
                              before |-> drawing_layers]
                  /\ UNCHANGED drawing_layers
    /\ UNCHANGED <<active_layer_id, view_active_layer_id>>
    /\ UNCHANGED <<cacheVars, genVars, rendVars, treeVars, openVars, lightVars>>

\* DrawingController.__init__ has added the initial layer
DrawInit ==
    /\ psd = [layers |-> <<>>]
    /\ filepath = NoPath
    /\ gout = [state |-> "idle"]
    /\ source = [p \in Paths |-> [size |-> 1, mtime |-> 1]]
    /\ files = <<>>
    /\ metadata = <<>>
    /\ metadata_file = <<>>
    /\ clock = 1
    /\ nops = 0
    /\ cres = [op |-> "none"]
    /\ written = {}
    /\ composite = None
    /\ loading = FALSE
    /\ callbacks = <<>>
    /\ req = [t \in Threads |-> [pc |-> "idle", call |-> 0]]
    /\ workers = [w \in WorkerIds |-> NotStarted]
    /\ calls = <<>>
    /\ attached = <<>>
    /\ invoked = [w \in WorkerIds |-> <<>>]
    /\ AppIdle

DrawNext == AddLayer \/ DeleteLayer \/ MoveLayer

SpecDraw == DrawInit /\ [][DrawNext]_vars

\* ========================================================================
\* Properties
\* ========================================================================
\* no call to get_composite_image is under way and no worker is running
Quiescent ==
    /\ \A t \in Threads : req[t].pc = "idle"
    /\ \A w \in WorkerIds : ~Running(w)

NoWorkerRaised == \A w \in WorkerIds : workers[w].pc # "raised"

\* the number of _generate_composite executions begun and ended so far
GenerationsExecuted ==
    Cardinality({w \in WorkerIds : workers[w].pc \notin {"unstarted", "gen"}})

RECURSIVE CountIn(_, _)
CountIn(seq, c) ==
    IF seq = <<>> THEN 0
    ELSE (IF Head(seq).callback = c THEN 1 ELSE 0) + CountIn(Tail(seq), c)

RECURSIVE TimesInvokedUpTo(_, _)
TimesInvokedUpTo(c, w) ==
    IF w = 0 THEN 0 ELSE CountIn(invoked[w], c) + TimesInvokedUpTo(c, w - 1)

\* how often the callback of call c has been invoked, over all workers
TimesInvoked(c) == TimesInvokedUpTo(c, MaxCalls)

\* the calls that passed a callback and returned null
NullCallsWithCallback == {c \in DOMAIN calls : calls[c].callback /\ calls[c].ret = None}

\* C1 (as claimed): for a fresh renderer, when every call so far was issued
\* before the first generation completed, _generate_composite has run at most
\* once, and once all is at rest every callback was invoked exactly once, all
\* with the same bitmap.
C1_AtMostOneJob ==
    (calls # <<>> /\ calls[1].fresh /\ \A c \in DOMAIN calls : calls[c].early)
    => /\ GenerationsExecuted <= 1
       /\ (Quiescent /\ NoWorkerRaised =>
              /\ GenerationsExecuted = 1
              /\ \A c \in DOMAIN calls : calls[c].callback => TimesInvoked(c) = 1
              /\ \A w1, w2 \in WorkerIds :
                    \A i \in DOMAIN invoked[w1], j \in DOMAIN invoked[w2] :
                        invoked[w1][i].bitmap = invoked[w2][j].bitmap)

\* C2 (as claimed): a callback passed to a call that returned null is never
\* invoked more than once, and once all is at rest (no generation having
\* raised) it has been invoked exactly once.
C2_EveryCallbackOnce ==
    /\ \A c \in DOMAIN calls : calls[c].callback => TimesInvoked(c) <= 1
    /\ (Quiescent /\ NoWorkerRaised =>
            \A c \in NullCallsWithCallback : TimesInvoked(c) = 1)

\* C3 (as claimed): at most one generation thread of the renderer is running.
C3_AtMostOneThread ==
    Cardinality({w \in WorkerIds : Running(w)}) <= 1

\* C4 (as claimed): when _generate_composite raised on a worker and all is at
\* rest, the renderer is not left loading without a bitmap and every attached
\* callback has been invoked.
C4_WorkerErrorReported ==
    ((\E w \in WorkerIds : workers[w].pc = "raised") /\ Quiescent)
    => /\ ~(loading /\ composite = None)
       /\ \A i \in DOMAIN attached : TimesInvoked(attached[i]) >= 1

\* C5 (as claimed): once the renderer holds a bitmap, no step changes the
\* bitmap it holds.
C5_ReadyIsTerminal == [][composite # None => composite' = composite]_vars

\* the position at which a callback was attached
RECURSIVE AttachPos(_, _)
AttachPos(c, i) ==
    IF i > Len(attached) THEN 0
    ELSE IF attached[i] = c THEN i ELSE AttachPos(c, i + 1)

\* C6: the callbacks one worker invokes are invoked in the order in which
\* they were attached, and each is invoked when the renderer already holds a
\* bitmap.
C6_AttachmentOrder ==
    \A w \in WorkerIds :
        /\ \A i, j \in DOMAIN invoked[w] :
              i < j => AttachPos(invoked[w][i].callback, 1) < AttachPos(invoked[w][j].callback, 1)
        /\ \A i \in DOMAIN invoked[w] :
              /\ IsBitmap(invoked[w][i].held)
              /\ IsBitmap(invoked[w][i].bitmap)
              /\ workers[w].pc \in {"iter", "clear", "done"}

\* C6 witness: one worker has invoked two callbacks attached to its job
C6_Witness == \E w \in WorkerIds : Len(invoked[w]) >= 2

\* the size no source of dimensions gives
NoDimensions(doc) ==
    /\ doc.header.present
    /\ (Or(doc.header.width, doc.width) = 0 \/ Or(doc.header.height, doc.height) = 0)
    /\ doc.layers # <<>>
    /\ (doc.layers[1].width = 0 \/ doc.layers[1].height = 0)

\* no strategy can produce a bitmap for the document
EveryStrategyFails(doc) ==
    /\ \A m \in DOMAIN doc.builtin : doc.builtin[m] \in {"absent", "raise", "none"}
    /\ (doc.layers = <<>> \/ ~doc.header.present \/ NoDimensions(doc))

\* C7 (as claimed): when every strategy fails, _generate_composite returns
\* the placeholder and does not raise.
C7_AlwaysPlaceholder ==
    (gout.state = "done" /\ EveryStrategyFails(psd))
    => ~gout.raised /\ gout.composite.kind = "placeholder"

\* C7 (amended): when every strategy fails, _generate_composite returns the
\* 800x200 placeholder if the placeholder can be drawn, and raises if not;
\* the placeholder is not handed to the cache.
C7_PlaceholderOrRaise ==
    (gout.state = "done" /\ EveryStrategyFails(psd))
    => /\ gout.placeholder_ok =>
              /\ ~gout.raised
              /\ gout.composite.kind = "placeholder"
              /\ gout.composite.w = 800 /\ gout.composite.h = 200
       /\ ~gout.placeholder_ok => gout.raised
       /\ ~gout.save

\* C7 witness: a document without accessors and without usable layers got
\* the placeholder
C7_Witness ==
    /\ gout.state = "done"
    /\ \A m \in DOMAIN psd.builtin : psd.builtin[m] = "absent"
    /\ NoDimensions(psd)
    /\ gout.composite.kind = "placeholder"

\* C8 (as claimed): when the document's composite() returns a bitmap, that
\* bitmap is the result and no other strategy was attempted.
C8_BuiltinFirst ==
    (gout.state = "done" /\ psd.builtin.composite = "img")
    => /\ gout.composite = BuiltinPx("composite")
       /\ gout.calls = <<"composite">>
       /\ ~gout.manual

RenderedVisible(layer) == layer.visible /\ layer.topil = "img"

Composited(layer) == RenderedVisible(layer) /\ layer.alpha_composite = "ok"

\* the entries of a canvas that received the given layers, last one first
BottomToTop(layers) ==
    [i \in 1..Len(layers) |->
        <<layers[Len(layers) + 1 - i].name, layers[Len(layers) + 1 - i].left,
          layers[Len(layers) + 1 - i].top>>]

\* manual composition ran and had a canvas size
ManuallyComposed ==
    /\ gout.state = "done"
    /\ gout.manual
    /\ psd.header.present
    /\ ~NoDimensions(psd)

\* C9 (as claimed): manual composition yields, without raising, the canvas
\* onto which exactly the visible layers whose topil() gave a bitmap were
\* composited at (left, top), bottom to top.
C9_AllRenderedComposited ==
    ManuallyComposed
    => /\ ~gout.raised
       /\ gout.composite.kind = "manual"
       /\ gout.composite.pasted = BottomToTop(SelectSeq(psd.layers, RenderedVisible))

\* C9 (amended): manual composition yields, without raising, the canvas onto
\* which exactly the visible layers whose topil() gave a bitmap and whose
\* alpha_composite call did not raise were composited at (left, top), bottom
\* to top; a layer that raises is skipped and invisible layers are left out.
C9_LayerIsolation ==
    ManuallyComposed
    => /\ ~gout.raised
       /\ gout.composite.kind = "manual"
       /\ gout.composite.pasted = BottomToTop(SelectSeq(psd.layers, Composited))

\* C9 witness: of two layers one raised in topil() and the other is on the
\* canvas
C9_Witness ==
    /\ ManuallyComposed
    /\ \E i \in DOMAIN psd.layers : psd.layers[i].visible /\ psd.layers[i].topil = "raise"
    /\ Len(gout.composite.pasted) >= 1

\* C10 (as claimed): after get_cached_image(P, V), for every cache file saved
\* for (P, V) when P had an earlier modification time, the lookup returned
\* absent and that file is gone.
C10_StaleFileRemoved ==
    cres.op = "get"
    => \A rec \in written :
          (rec.path = cres.path /\ rec.suffix = cres.suffix
           /\ rec.smtime < source[cres.path].mtime)
          => cres.result = None /\ ~Exists(files, rec.name)


\* C11: a save of a bitmap B for (p, v) that wrote its file, followed
\* immediately by a lookup of (p, v) for the unchanged source p (whose
\* modification time is not later than the save), returns a bitmap equal to
\* B and never absent, also when the save ran an eviction sweep
C11_RoundTrip ==
    (/\ cres.op = "get"
     /\ cres.after.op = "save"
     /\ cres.after.outcome = "ok"
     /\ cres.after.path = cres.path
     /\ cres.after.suffix = cres.suffix
     /\ source[cres.path].mtime <= clock)
    => /\ IsBitmap(cres.result)
       /\ cres.result.px = cres.after.px

\* a save call that wrote its file has just returned
SaveReturned == cres.op = "save" /\ cres.outcome = "ok"

\* C12: after a save_image_to_cache call that wrote its file returns, and no
\* removal failed during its sweep, the sizes of all files left in the cache
\* directory sum to at most max_cache_size
C12_EvictionBound ==
    (SaveReturned /\ cres.failing = {}) => TotalSize(files) <= max_cache_size

\* a save has returned after its sweep removed a cached file and kept another
C12_Witness ==
    /\ SaveReturned
    /\ cres.failing = {}
    /\ files # <<>>
    /\ \E rec \in written : ~Exists(files, rec.name)

\* the cache directory as the sweep of the save call (path, suffix, size) finds it
BeforeSweep(path, suffix, size) ==
    WriteFile(files, get_cache_path(path, suffix),
              [mtime |-> clock, atime |-> clock, size |-> size, px |-> "px1", valid |-> TRUE])

\* the total after the sweep has gone through the first k files of order
TotalAfter(fs, order, k, failing) ==
    TotalSize(fs) - SumSizes(fs, {order[i] : i \in 1..k} \ failing)

\* some access-time order and some k: exactly the first k files are removed
\* (those whose removal fails excepted), the total was over the budget before
\* each of them, and the sweep ended at the end of the list or within budget
RemovesMinimalPrefix(before, after, failing) ==
    \E order \in Orders(before), k \in 0..Cardinality(DOMAIN before) :
        /\ DOMAIN before \ DOMAIN after = {order[i] : i \in 1..k} \ failing
        /\ \A j \in 0..(k - 1) : TotalAfter(before, order, j, failing) > max_cache_size
        /\ \/ k = Cardinality(DOMAIN before)
           \/ TotalAfter(before, order, k, failing) <= max_cache_size

\* C13: the sweep of a save removes nothing when the directory is within the
\* budget; otherwise it removes exactly a prefix of the image files in
\* ascending access-time order, stopping at the first point where the running
\* total is within the budget, and skips a file whose removal fails
C13_EvictionOrder ==
    [][(cres'.op = "save" /\ cres'.outcome = "ok" /\ nops' # nops)
       => LET before == BeforeSweep(cres'.path, cres'.suffix, cres'.size)
          IN /\ \A n \in DOMAIN files' : n \in DOMAIN before /\ files'[n].size = before[n].size
             /\ TotalSize(before) <= max_cache_size => DOMAIN files' = DOMAIN before
             /\ TotalSize(before) > max_cache_size
                    => RemovesMinimalPrefix(before, files', cres'.failing)]_vars

\* a save has returned from a sweep in which one removal failed (that file is
\* still there) and another file was removed
C13_Witness ==
    /\ SaveReturned
    /\ \E n \in cres.failing : Exists(files, n)
    /\ \E rec \in written : ~Exists(files, rec.name)

\* C15: a save_image_to_cache call whose image.save raises returns normally
\* and is a no-op: the metadata index in memory and on disk is unchanged and
\* no cached file is evicted
C15_FailedSaveIsNoOp ==
    [][(cres'.op = "save" /\ cres'.outcome # "ok" /\ nops' # nops)
       => /\ metadata' = metadata
          /\ metadata_file' = metadata_file
          /\ DOMAIN files' = DOMAIN files
          /\ \A n \in DOMAIN files :
                n # get_cache_path(cres'.path, cres'.suffix) => files'[n] = files[n]]_vars

\* a save has failed in a cache that holds files and metadata records
C15_Witness ==
    /\ cres.op = "save"
    /\ cres.outcome # "ok"
    /\ metadata # <<>>
    /\ files # <<>>

\* C16: for an existing source, get_cached_image returns a bitmap only if a
\* file exists at the computed cache path and its modification time is not
\* older than the source's; in every other case, an undecodable file
\* included, it returns absent
C16_LookupValidity ==
    [][(cres'.op = "get" /\ nops' # nops)
       => LET name == get_cache_path(cres'.path, cres'.suffix)
          IN IF /\ Exists(files, name)
                /\ files[name].mtime >= source[cres'.path].mtime
                /\ files[name].valid
             THEN IsBitmap(cres'.result) /\ cres'.result.px = files[name].px
             ELSE cres'.result = None]_vars

\* a lookup has returned a bitmap
C16_Witness ==
    /\ cres.op = "get"
    /\ IsBitmap(cres.result)
    /\ Exists(files, get_cache_path(cres.path, cres.suffix))

\* what _generate_composite gives for the document when no file path is set
NoCache(placeholder_ok) == _generate_composite(psd, NoPath, placeholder_ok)

\* every bitmap the renderer has handed out: returned by a call or passed to
\* a callback
Delivered ==
    {calls[c].ret : c \in {d \in DOMAIN calls : IsBitmap(calls[d].ret)}}
    \cup UNION {{invoked[w][i].bitmap : i \in DOMAIN invoked[w]} : w \in WorkerIds}

C17_CacheFirst ==
    /\ (/\ filepath # NoPath
        /\ SourceExists(filepath)
        /\ calls = <<>>
        /\ IsBitmap(CachedImageResult(files, filepath, "_full")))
       => /\ IsBitmap(composite)
          /\ composite.px = CachedImageResult(files, filepath, "_full").px
    /\ (IsBitmap(composite) /\ composite.id = 0)
       => /\ \A w \in WorkerIds : workers[w] = NotStarted
          /\ \A c \in DOMAIN calls : calls[c].ret = composite

\* worker w's bitmap can be seen: the renderer holds it, a call returned it or
\* a callback received it
Visible(w) ==
    \/ (IsBitmap(composite) /\ composite.id = w)
    \/ invoked[w] # <<>>
    \/ \E c \in DOMAIN calls : IsBitmap(calls[c].ret) /\ calls[c].ret.id = w

\* C18: for a composite generated (not the placeholder) by a renderer with a
\* file path, the save to the cache has been attempted and has returned
\* before the bitmap is visible through get_composite_image and before any
\* callback is invoked with it
C18_PersistBeforeDelivery ==
    \A w \in WorkerIds :
        (/\ Visible(w)
         /\ filepath # NoPath
         /\ workers[w].result.px.kind # "placeholder")
        => workers[w].save \in {"ok", "fail"}

\* a generated composite was saved and then passed to a callback
C18_Witness ==
    \E w \in WorkerIds :
        /\ workers[w].save = "ok"
        /\ invoked[w] # <<>>
        /\ \E rec \in written : rec.path = filepath /\ rec.suffix = "_full"

\* C19: get_composite_image never runs _generate_composite on the calling
\* thread: a step in which a generation is executed is no step of a call, and
\* a call returns the bitmap held when it looked, or null
C19_NeverOnCallingThread ==
    [][/\ GenerationsExecuted' # GenerationsExecuted => UNCHANGED <<req, calls>>
       /\ \A c \in DOMAIN calls' :
             (c \notin DOMAIN calls \/ calls'[c].ret # calls[c].ret)
                => calls'[c].ret \in {Pending, None, composite}]_vars

\* a call has returned null and the generation it started has been executed
\* by a worker
C19_Witness ==
    /\ \E c \in DOMAIN calls : calls[c].ret = None
    /\ GenerationsExecuted >= 1
    /\ \A t \in Threads : req[t].pc = "idle"

\* the layers differ at most in their visibility flags
SameButVisibility(ls1, ls2) ==
    /\ Len(ls1) = Len(ls2)
    /\ \A i \in DOMAIN ls1 : [ls1[i] EXCEPT !.visible = TRUE] = [ls2[i] EXCEPT !.visible = TRUE]

\* C20: set_layer_visibility changes nothing but a layer's visibility flag:
\* a step that changes the document leaves the rest of the document, the
\* renderer's composite, loading flag and callback list, every cache file and
\* metadata entry as they were, and starts no generation
C20_VisibilityFrame ==
    [][psd' # psd
       => /\ SameButVisibility(psd.layers, psd'.layers)
          /\ [psd' EXCEPT !.layers = psd.layers] = psd
          /\ UNCHANGED <<composite, loading, callbacks>>
          /\ UNCHANGED <<files, metadata, metadata_file>>
          /\ UNCHANGED <<workers, req>>]_vars

\* a layer has been hidden while the renderer holds a composite that shows it
\* and the cache holds the file saved for it
C20_Witness ==
    /\ \E i \in DOMAIN psd.layers : ~psd.layers[i].visible
    /\ IsBitmap(composite)
    /\ composite.px.pasted # <<>>
    /\ files # <<>>

RECURSIVE Flat(_)
\* the layers of a tree in the order of the search, as <<name, visible>>
Flat(layers) ==
    IF layers = <<>> THEN <<>>
    ELSE <<<<Head(layers).name, Head(layers).visible>>>>
         \o (IF IsGroup(Head(layers)) THEN Flat(Head(layers).children) ELSE <<>>)
         \o Flat(Tail(layers))

FlatDoc(doc) == IF doc = None THEN <<>> ELSE Flat(doc.layers)

\* C21: set_layer_visibility(name, visible) returns true exactly when some
\* layer at some depth of the tree has that name; when it returns true a
\* layer of that name has the flag visible afterwards (and no other layer
\* changed), and when it returns false nothing changed
C21_VisibilityContract ==
    vret.op = "set_layer_visibility" =>
        LET before == FlatDoc(vret.before)
            after == FlatDoc(psd)
        IN /\ vret.found <=> \E k \in DOMAIN before : before[k][1] = vret.name
           /\ Len(after) = Len(before)
           /\ vret.found =>
                \E k \in DOMAIN after :
                    /\ after[k] = <<vret.name, vret.visible>>
                    /\ \A j \in DOMAIN after : j # k => after[j] = before[j]
           /\ ~vret.found => psd = vret.before

\* a layer inside a group inside a group was found and its flag changed
C21_Witness ==
    /\ vret.op = "set_layer_visibility"
    /\ vret.found
    /\ psd # vret.before
    /\ \A i \in DOMAIN vret.before.layers :
          /\ vret.before.layers[i].name # vret.name
          /\ IsGroup(vret.before.layers[i]) =>
                \A c \in DOMAIN vret.before.layers[i].children :
                    vret.before.layers[i].children[c].name # vret.name

\* C22: PSDDocument.from_file fails with FileNotFoundError when no file is at
\* the path, with PermissionError when the file cannot be read and with
\* ValueError (invalid format) when the file is no PSD, and it reports a file
\* as invalid only when its content is no PSD.
C22_TypedOpenFailures ==
    oret.op = "from_file" =>
        /\ ~SourceExists(oret.path) => oret.raised = "FileNotFoundError"
        /\ SourceExists(oret.path) /\ ~oret.readable => oret.raised = "PermissionError"
        /\ SourceExists(oret.path) /\ oret.readable /\ oret.content # "psd"
              => oret.raised = "ValueError"
        /\ oret.raised = "ValueError" => oret.readable /\ oret.content # "psd"

\* a load_psd call that raised or returned False
LoadFailed == oret.op = "load_psd" /\ (oret.raised # "none" \/ oret.ret = "False")

\* C23: after a load_psd call that failed while a document was loaded, the
\* controller's and the view's psd_doc are the documents they were before the
\* call and the view's document has not been cleaned up.
C23_FailedOpenKeepsDocument ==
    (LoadFailed /\ oret.before.ctl # None /\ oret.before.view # None) =>
        /\ ctl_doc = oret.before.ctl
        /\ view_doc = oret.before.view
        /\ oret.before.view.id \notin cleaned

\* C25: create_renderer with render_mode 'light' and no preview path raises
\* ValueError and builds no renderer.
C25_LightNeedsPreviewPath ==
    (oret.op = "create_renderer" /\ oret.render_mode = "light" /\ oret.preview_path = NoPath)
        => oret.raised = "ValueError" /\ oret.renderer = None

C25_Witness ==
    oret.op = "create_renderer" /\ oret.render_mode = "light" /\ oret.preview_path = NoPath

\* C26: the renderer of a document opened in full mode by from_file(filepath)
\* looks up and saves under the key of filepath itself, so it starts with the
\* bitmap whenever the cache holds a usable composite for that file.
C26_KeyedBySourceFile ==
    (oret.op = "from_file" /\ oret.raised = "none" /\ oret.render_mode = "full") =>
        /\ oret.doc.renderer.filepath = oret.path
        /\ oret.keyed # None => oret.doc.renderer.composite # None

\* C24: PSDLightRenderer.get_composite_image starts no thread and tries only
\* psd.composite(); with no bitmap held it returns the composite in the same
\* call, written to the preview file and held, or raises and holds nothing
\* when composite() gives no bitmap or the write fails; with a bitmap held it
\* returns that bitmap without calling composite() or writing.
C24_LightWriteThrough ==
    lret.op = "get_composite_image" =>
        /\ \A w \in WorkerIds : workers[w] = NotStarted
        /\ IF lret.before.png_image # None
           THEN /\ lret.raised = "none" /\ lret.ret = lret.before.png_image
                /\ ~lret.composed
                /\ png_image = lret.before.png_image
                /\ preview_file = lret.before.file
           ELSE IF psd.builtin.composite = "img" /\ lret.write = "ok"
           THEN /\ lret.raised = "none" /\ lret.ret = BuiltinPx("composite")
                /\ png_image = lret.ret
                /\ preview_file = lret.ret
           ELSE /\ lret.raised # "none" /\ lret.ret = None
                /\ png_image = None

\* a write that failed on a document that composites, then a later call
\* that returned the held bitmap of a successful one
C24_Witness ==
    /\ lret.op = "get_composite_image"
    /\ lret.before.png_image # None
    /\ ncomposite >= 2
    /\ psd.builtin.topil = "img"

\* C27: every record of the metadata index names a cache file that exists in
\* the cache directory, and every file of the cache directory is named by a
\* record of the index.
C27_IndexConsistency ==
    /\ \A k \in DOMAIN metadata : Exists(files, metadata[k].cache_path)
    /\ \A n \in DOMAIN files : \E k \in DOMAIN metadata : metadata[k].cache_path = n

\* C28: a generation that returns the placeholder does not call
\* save_image_to_cache: no cache file holds a placeholder, and a renderer
\* built afterwards for the same file finds nothing in the cache.
C28_PlaceholderNeverCached ==
    /\ \A n \in DOMAIN files : files[n].px.kind # "placeholder"
    /\ (gout.state = "done" /\ ~gout.raised /\ gout.composite.kind = "placeholder") =>
          /\ cres.op = "none"
          /\ written = {}
          /\ InitialComposite(files, filepath) = None

\* the placeholder came out of a renderer that was given a file path
C28_Witness ==
    /\ gout.state = "done" /\ ~gout.raised
    /\ gout.composite.kind = "placeholder"
    /\ filepath # NoPath

\* the worker w has delivered to a callback that raised
DeliveredToRaiser(w) == \E i \in DOMAIN invoked[w] : invoked[w][i].raised

\* the invocations w made behind its i-th one, to the callback c
LaterInvocations(w, i, c) == {j \in DOMAIN invoked[w] : j > i /\ invoked[w][j].callback = c}

\* C29: a callback that raises during delivery does not end the worker: when
\* that worker's delivery ends, every callback that was behind the raising
\* one in the list has been invoked once by it, the bitmap is held and the
\* callback list is empty; and once no call and no worker is under way the
\* renderer holds the bitmap with its loading flag clear and its list empty.
C29_CallbackIsolation ==
    [][\A w \in WorkerIds :
          /\ (workers[w].pc = "iter" /\ Len(invoked'[w]) > Len(invoked[w])) =>
                workers'[w].pc = "iter"
          /\ (workers[w].pc = "clear" /\ workers'[w].pc = "done" /\ DeliveredToRaiser(w)) =>
                /\ composite' # None
                /\ callbacks' = <<>>
                /\ \A i \in DOMAIN invoked[w] : invoked[w][i].raised =>
                      \A k \in DOMAIN invoked[w][i].rest :
                         Cardinality(LaterInvocations(w, i, invoked[w][i].rest[k])) = 1
          /\ (Quiescent' /\ DeliveredToRaiser(w)') =>
                composite' # None /\ ~loading' /\ callbacks' = <<>>]_vars

\* C30: after any add_layer, delete_layer and move_layer calls the layer list
\* is not empty, its ids are distinct, active_layer_id is the id of one of its
\* layers, and a move_layer call left the list a permutation of what it was.
C30_LayerListInvariant ==
    /\ drawing_layers # <<>>
    /\ \A i, j \in DOMAIN drawing_layers : i # j => drawing_layers[i] # drawing_layers[j]
    /\ \E i \in DOMAIN drawing_layers : drawing_layers[i] = active_layer_id
    /\ dret.op = "move_layer" =>
          /\ Len(drawing_layers) = Len(dret.before)
          /\ {drawing_layers[i] : i \in DOMAIN drawing_layers}
                = {dret.before[i] : i \in DOMAIN dret.before}

\* a layer was deleted from a list whose ids are no longer 1..n, so that the
\* next id differs from the count of layers plus one
C30_Witness ==
    /\ dret.op = "delete_layer"
    /\ Len(drawing_layers) < Len(dret.before)
    /\ MaxId(drawing_layers) > Len(drawing_layers)
    /\ active_layer_id # view_active_layer_id

====
